---- MODULE Spec2Model ----
(***************************************************************************)
(* Model of the sandbox-profile generator in src/lib.rs: the Permissions   *)
(* accumulator and its setters, validate_paths, the rule emitters,         *)
(* generate_profile and minify_profile.                                    *)
(*                                                                         *)
(* Text is modelled character by character: a Rust String is a sequence of *)
(* one-character strings.  A PathBuf is a sequence of such units in which  *)
(* the unit "0xFF" stands for a byte that is not valid UTF-8; the lossy    *)
(* conversions turn it into the replacement character "U+FFFD".            *)
(***************************************************************************)
EXTENDS Integers, Sequences, FiniteSets, TLC

VARIABLES
    fs,            \* the filesystem: the set of paths that exist right now
    permissions,   \* the Permissions struct
    call,          \* the most recent operation: name, argument, what it returned
    calls,         \* number of operations performed so far
    lastOk,        \* history: per list field, the argument of its last successful setter call
    profile,       \* the String returned by the last generate_profile
    access_type,   \* emitters: the access-type token
    allow_list,    \* emitters: the allow list
    deny_list,     \* emitters: the deny list
    file_out,      \* emitters: result of generate_file_permissions
    run_out,       \* emitters: result of generate_run_permissions
    emitted,       \* emitters: which emitters have run
    text,          \* minifier: the input profile text
    min1,          \* minifier: minify_profile(text)
    min2,          \* minifier: minify_profile(min1)
    mstage         \* minifier: number of minify_profile applications done

vars == <<fs, permissions, call, calls, lastOk, profile,
          access_type, allow_list, deny_list, file_out, run_out, emitted,
          text, min1, min2, mstage>>

permVars == <<fs, permissions, call, calls, lastOk, profile>>
emitVars == <<access_type, allow_list, deny_list, file_out, run_out, emitted>>
minVars  == <<text, min1, min2, mstage>>

----------------------------------------------------------------------------
(* Bounds *)

\* longest path list handed to a setter or list handed to an emitter
MaxLen == 2
\* longest program list handed to a setter
MaxProgs == 1
\* operations on one Permissions value
MaxCalls == 2
\* longest list of a Permissions value handed to generate_profile directly
MaxProfLen == 1
\* longest text handed to minify_profile
MaxText == 4

RECURSIVE BSeq(_, _)
\* all sequences over S of length at most n
BSeq(S, n) ==
    IF n = 0 THEN {<<>>}
    ELSE LET shorter == BSeq(S, n - 1)
         IN  shorter \cup {Append(s, x) : s \in {t \in shorter : Len(t) = n - 1}, x \in S}

----------------------------------------------------------------------------
(* Text helpers *)

RECURSIVE Concat(_)
\* concatenation of a sequence of strings
Concat(ss) == IF ss = <<>> THEN <<>> ELSE Head(ss) \o Concat(Tail(ss))

\* s has t as a substring starting at position i
MatchAt(s, t, i) == i + Len(t) - 1 <= Len(s) /\ SubSeq(s, i, i + Len(t) - 1) = t

\* str::contains
Contains(s, t) == \E i \in 1..(Len(s) + 1) : MatchAt(s, t, i)

----------------------------------------------------------------------------
(* Paths, programs and the lossy conversions *)

PathA == <<"/", "a">>
PathRaw == <<"/", "0xFF">>      \* a name holding a byte that is not valid UTF-8

\* the paths a caller may name
Paths == {PathA, PathRaw}

\* the program identifiers a caller may name
Programs == {<<"p", "y">>, <<"s", "h">>}

\* Path::to_string_lossy().to_string(): invalid bytes become U+FFFD
to_string_lossy(path) ==
    [i \in 1..Len(path) |-> IF path[i] = "0xFF" THEN "U+FFFD" ELSE path[i]]

\* Path::display(): the same lossy rendering, used in the error message
display(path) ==
    [i \in 1..Len(path) |-> IF path[i] = "0xFF" THEN "U+FFFD" ELSE path[i]]

\* Path::exists() against the current filesystem
exists(path, fsys) == path \in fsys

NoError == [kind |-> "none", msg |-> <<>>]

\* std::io::Error::new(ErrorKind::NotFound, format!("Path does not exist: {}", path.display()))
NotFound(path) ==
    [kind |-> "NotFound",
     msg  |-> <<"P","a","t","h"," ","d","o","e","s"," ","n","o","t"," ",
                "e","x","i","s","t",":"," ">> \o display(path)]

RECURSIVE collect(_, _, _, _, _)
\* paths.into_iter().map(..).collect::<Result<Vec<_>, _>>(): items are mapped
\* lazily, one at a time, and collection stops at the first Err.
\* statLog records the paths on which exists() was called, in order.
collect(paths, fsys, i, acc, log) ==
    IF i > Len(paths)
    THEN [ok |-> TRUE, value |-> acc, err |-> NoError, statLog |-> log]
    ELSE IF exists(paths[i], fsys)
         THEN collect(paths, fsys, i + 1,
                      Append(acc, to_string_lossy(paths[i])), Append(log, paths[i]))
         ELSE [ok |-> FALSE, value |-> <<>>, err |-> NotFound(paths[i]),
               statLog |-> Append(log, paths[i])]

RECURSIVE collect_all(_, _, _, _, _, _)
\* a validator that keeps checking after the first failure
collect_all(paths, fsys, i, acc, log, err) ==
    IF i > Len(paths)
    THEN [ok |-> err = NoError, value |-> IF err = NoError THEN acc ELSE <<>>,
          err |-> err, statLog |-> log]
    ELSE IF exists(paths[i], fsys)
         THEN collect_all(paths, fsys, i + 1,
                          Append(acc, to_string_lossy(paths[i])), Append(log, paths[i]), err)
         ELSE collect_all(paths, fsys, i + 1, acc, Append(log, paths[i]),
                          IF err = NoError THEN NotFound(paths[i]) ELSE err)

\* validate_paths variant: checks every path even after a failure
validate_paths_collect_all(paths, fsys) == collect_all(paths, fsys, 1, <<>>, <<>>, NoError)

\* validate_paths variant: converts without asking the filesystem
validate_paths_unchecked(paths, fsys) ==
    [ok |-> TRUE, value |-> [i \in 1..Len(paths) |-> to_string_lossy(paths[i])],
     err |-> NoError, statLog |-> <<>>]

\* validate_paths
validate_paths(paths, fsys) == collect(paths, fsys, 1, <<>>, <<>>)

\* assignment variant: a failed validation resets the field
try_assign_reset(old, r) == IF r.ok THEN r.value ELSE <<>>

\* assignment variant: a successful validation extends the field
try_assign_append(old, r) == IF r.ok THEN old \o r.value ELSE old

\* `self.field = validate_paths(paths)?;` : the ? returns early on Err, before
\* the assignment; on Ok the field is overwritten
try_assign(old, r) == IF r.ok THEN r.value ELSE old

----------------------------------------------------------------------------
(* The rule emitters *)

FileRead  == <<"f","i","l","e","-","r","e","a","d","*">>
FileWrite == <<"f","i","l","e","-","w","r","i","t","e","*">>
ProcessExec == <<"p","r","o","c","e","s","s","-","e","x","e","c">>

\* format!("(deny {} (subpath \"{}\"))\n", access_type, path)
fmt_deny_subpath(access, path) ==
    <<"(","d","e","n","y"," ">> \o access
      \o <<" ","(","s","u","b","p","a","t","h"," ","\"">> \o path
      \o <<"\"",")",")","\n">>

\* format!("(allow {})\n", access_type)
fmt_allow_open(access) ==
    <<"(","a","l","l","o","w"," ">> \o access \o <<")","\n">>

\* format!("    (subpath \"{}\")\n", path)
fmt_subpath(path) ==
    <<" "," "," "," ","(","s","u","b","p","a","t","h"," ","\"">> \o path
      \o <<"\"",")","\n">>

\* ")\n"
fmt_close == <<")","\n">>

RECURSIVE push_each(_, _, _, _)
\* for x in list { statement.push_str(&fmt(x)) }, from element i on;
\* fmt is selected by kind
push_each(statement, list, i, kind) ==
    IF i > Len(list) THEN statement
    ELSE push_each(statement \o kind[list[i]], list, i + 1, kind)

\* generate_file_permissions variant: the allow block is pushed without the
\* is_empty test
generate_file_permissions_always_allow(access, allow_paths, deny_paths) ==
    LET strs == {allow_paths[i] : i \in 1..Len(allow_paths)}
                  \cup {deny_paths[i] : i \in 1..Len(deny_paths)}
        s0 == <<>>
        s1 == push_each(s0, deny_paths, 1, [p \in strs |-> fmt_deny_subpath(access, p)])
        s2 == push_each(s1 \o fmt_allow_open(access), allow_paths, 1,
                        [p \in strs |-> fmt_subpath(p)]) \o fmt_close
    IN  s2

\* generate_file_permissions
generate_file_permissions(access, allow_paths, deny_paths) ==
    LET strs == {allow_paths[i] : i \in 1..Len(allow_paths)}
                  \cup {deny_paths[i] : i \in 1..Len(deny_paths)}
        s0 == <<>>
        s1 == push_each(s0, deny_paths, 1, [p \in strs |-> fmt_deny_subpath(access, p)])
        s2 == IF allow_paths # <<>>
              THEN push_each(s1 \o fmt_allow_open(access), allow_paths, 1,
                             [p \in strs |-> fmt_subpath(p)]) \o fmt_close
              ELSE s1
    IN  s2

\* generate_network_permissions
generate_network_permissions(allow_net) ==
    IF allow_net
    THEN <<"(","a","l","l","o","w"," ","n","e","t","w","o","r","k","*",")","\n">>
    ELSE <<>>

\* format!("(deny process-exec (literal \"{}\"))\n", prog)
fmt_deny_literal(prog) ==
    <<"(","d","e","n","y"," ","p","r","o","c","e","s","s","-","e","x","e","c",
      " ","(","l","i","t","e","r","a","l"," ","\"">> \o prog \o <<"\"",")",")","\n">>

\* "(allow process-exec\n"
fmt_allow_exec_open ==
    <<"(","a","l","l","o","w"," ","p","r","o","c","e","s","s","-","e","x","e","c","\n">>

\* format!("    (literal \"{}\")\n", prog)
fmt_literal(prog) ==
    <<" "," "," "," ","(","l","i","t","e","r","a","l"," ","\"">> \o prog
      \o <<"\"",")","\n">>

\* generate_run_permissions
generate_run_permissions(allow_progs, deny_progs) ==
    LET strs == {allow_progs[i] : i \in 1..Len(allow_progs)}
                  \cup {deny_progs[i] : i \in 1..Len(deny_progs)}
        s0 == <<>>
        s1 == push_each(s0, deny_progs, 1, [p \in strs |-> fmt_deny_literal(p)])
        s2 == IF allow_progs # <<>>
              THEN push_each(s1 \o fmt_allow_exec_open, allow_progs, 1,
                             [p \in strs |-> fmt_literal(p)]) \o fmt_close
              ELSE s1
    IN  s2

\* generate_profile variant: the write rules are pushed before the read rules
generate_profile_write_first(template, perms) ==
    LET p0 == template
        p1 == p0 \o generate_file_permissions(FileWrite, perms.allow_write, perms.deny_write)
        p2 == p1 \o generate_file_permissions(FileRead, perms.allow_read, perms.deny_read)
        p3 == p2 \o generate_network_permissions(perms.allow_net)
        p4 == p3 \o generate_run_permissions(perms.allow_run, perms.deny_run)
    IN  p4

\* generate_profile: String::from(template) followed by four push_str calls
generate_profile(template, perms) ==
    LET p0 == template
        p1 == p0 \o generate_file_permissions(FileRead, perms.allow_read, perms.deny_read)
        p2 == p1 \o generate_file_permissions(FileWrite, perms.allow_write, perms.deny_write)
        p3 == p2 \o generate_network_permissions(perms.allow_net)
        p4 == p3 \o generate_run_permissions(perms.allow_run, perms.deny_run)
    IN  p4

----------------------------------------------------------------------------
(* The Permissions accumulator *)

PathFields == {"allow_read", "deny_read", "allow_write", "deny_write"}
RunFields  == {"allow_run", "deny_run"}
ListFields == PathFields \cup RunFields

\* Permissions::new() / Default: empty lists, allow_net false
NewPermissions ==
    [allow_read |-> <<>>, deny_read |-> <<>>, allow_write |-> <<>>, deny_write |-> <<>>,
     allow_net |-> FALSE, allow_run |-> <<>>, deny_run |-> <<>>]

TemplateEmpty == <<>>
TemplateBase ==
    <<"(","v","e","r","s","i","o","n"," ","1",")","\n",
      "(","d","e","n","y"," ","d","e","f","a","u","l","t",")","\n">>

\* the templates a caller may pass
Templates == {TemplateEmpty, TemplateBase}

NoCall == [op |-> "new", arg |-> <<>>, ok |-> TRUE, err |-> NoError, statLog |-> <<>>]

\* an entry appears on the filesystem
CreateEntry(p) ==
    /\ p \notin fs
    /\ fs' = fs \cup {p}
    /\ UNCHANGED <<permissions, call, calls, lastOk, profile>>
    /\ UNCHANGED emitVars /\ UNCHANGED minVars

\* an entry disappears from the filesystem
RemoveEntry(p) ==
    /\ p \in fs
    /\ fs' = fs \ {p}
    /\ UNCHANGED <<permissions, call, calls, lastOk, profile>>
    /\ UNCHANGED emitVars /\ UNCHANGED minVars

\* body shared by the four path setters: validate, then assign unless Err
set_paths(field, paths) ==
    LET r == validate_paths(paths, fs)
    IN  /\ calls < MaxCalls
        /\ permissions' = [permissions EXCEPT ![field] = try_assign(@, r)]
        /\ call' = [op |-> field, arg |-> paths, ok |-> r.ok, err |-> r.err,
                    statLog |-> r.statLog]
        /\ calls' = calls + 1
        /\ lastOk' = IF r.ok THEN [lastOk EXCEPT ![field] = paths] ELSE lastOk
        /\ UNCHANGED <<fs, profile>>
        /\ UNCHANGED emitVars /\ UNCHANGED minVars

\* body shared by the two program setters: plain assignment
set_programs(field, programs) ==
    /\ calls < MaxCalls
    /\ permissions' = [permissions EXCEPT ![field] = programs]
    /\ call' = [op |-> field, arg |-> programs, ok |-> TRUE, err |-> NoError,
                statLog |-> <<>>]
    /\ calls' = calls + 1
    /\ lastOk' = [lastOk EXCEPT ![field] = programs]
    /\ UNCHANGED <<fs, profile>>
    /\ UNCHANGED emitVars /\ UNCHANGED minVars

allow_read(paths)  == set_paths("allow_read", paths)
deny_read(paths)   == set_paths("deny_read", paths)
allow_write(paths) == set_paths("allow_write", paths)
deny_write(paths)  == set_paths("deny_write", paths)

allow_net ==
    /\ calls < MaxCalls
    /\ permissions' = [permissions EXCEPT !.allow_net = TRUE]
    /\ call' = [op |-> "allow_net", arg |-> <<>>, ok |-> TRUE, err |-> NoError,
                statLog |-> <<>>]
    /\ calls' = calls + 1
    /\ UNCHANGED <<fs, lastOk, profile>>
    /\ UNCHANGED emitVars /\ UNCHANGED minVars

allow_run(programs) == set_programs("allow_run", programs)
deny_run(programs)  == set_programs("deny_run", programs)

\* a call of generate_profile(template, &permissions); it always returns Ok
call_generate_profile(template) ==
    /\ calls < MaxCalls
    /\ profile' = generate_profile(template, permissions)
    /\ call' = [op |-> "generate_profile", arg |-> <<template>>, ok |-> TRUE,
                err |-> NoError, statLog |-> <<>>]
    /\ calls' = calls + 1
    /\ UNCHANGED <<fs, permissions, lastOk>>
    /\ UNCHANGED emitVars /\ UNCHANGED minVars

EmitIdle ==
    /\ access_type = <<>> /\ allow_list = <<>> /\ deny_list = <<>>
    /\ file_out = <<>> /\ run_out = <<>> /\ emitted = {}

MinIdle == text = <<>> /\ min1 = <<>> /\ min2 = <<>> /\ mstage = 0

PermIdle ==
    /\ fs = {} /\ permissions = NewPermissions /\ call = NoCall /\ calls = 0
    /\ lastOk = [f \in ListFields |-> <<>>] /\ profile = <<>>

Init == PermIdle /\ EmitIdle /\ MinIdle

Next ==
    \/ \E p \in Paths : CreateEntry(p)
    \/ \E p \in Paths : RemoveEntry(p)
    \/ \E paths \in BSeq(Paths, MaxLen) : allow_read(paths)
    \/ \E paths \in BSeq(Paths, MaxLen) : deny_read(paths)
    \/ \E paths \in BSeq(Paths, MaxLen) : allow_write(paths)
    \/ \E paths \in BSeq(Paths, MaxLen) : deny_write(paths)
    \/ allow_net
    \/ \E programs \in BSeq(Programs, MaxProgs) : allow_run(programs)
    \/ \E programs \in BSeq(Programs, MaxProgs) : deny_run(programs)
    \/ \E t \in Templates : call_generate_profile(t)

\* a Permissions value built by setter calls, with the filesystem changing in between
Spec == Init /\ [][Next]_vars

----------------------------------------------------------------------------
(* generate_profile on an arbitrary Permissions value *)

\* the string forms of a list of paths
string_forms(paths) == [i \in 1..Len(paths) |-> to_string_lossy(paths[i])]

\* any Permissions value whose path lists were validated while every path existed
InitProfile ==
    /\ fs = Paths
    /\ \E ar \in BSeq(Paths, MaxProfLen), dr \in BSeq(Paths, MaxProfLen),
          aw \in BSeq(Paths, MaxProfLen), dw \in BSeq(Paths, MaxProfLen),
          arun \in BSeq(Programs, MaxProfLen), drun \in BSeq(Programs, MaxProfLen),
          net \in BOOLEAN :
          /\ lastOk = [f \in ListFields |->
                          CASE f = "allow_read" -> ar  [] f = "deny_read" -> dr
                            [] f = "allow_write" -> aw [] f = "deny_write" -> dw
                            [] f = "allow_run" -> arun [] f = "deny_run" -> drun]
          /\ permissions =
                [allow_read  |-> string_forms(ar), deny_read  |-> string_forms(dr),
                 allow_write |-> string_forms(aw), deny_write |-> string_forms(dw),
                 allow_net   |-> net, allow_run |-> arun, deny_run |-> drun]
    /\ call = NoCall /\ calls = 0 /\ profile = <<>>
    /\ EmitIdle /\ MinIdle

\* the Permissions value is consumed by one generate_profile call
NextProfile == calls = 0 /\ \E t \in Templates : call_generate_profile(t)

SpecProfile == InitProfile /\ [][NextProfile]_vars

----------------------------------------------------------------------------
(* The emitters on arbitrary lists *)

\* the access-type tokens handed to generate_file_permissions
AccessTypes == {FileRead, FileWrite, ProcessExec}

\* the path or program strings that may occur in a list
EmitStrings == {<<"/", "a">>, <<"/", "U+FFFD">>, <<"p", "y">>}

InitEmit ==
    /\ access_type \in AccessTypes
    /\ allow_list \in BSeq(EmitStrings, MaxLen)
    /\ deny_list \in BSeq(EmitStrings, MaxLen)
    /\ file_out = <<>> /\ run_out = <<>> /\ emitted = {}
    /\ PermIdle /\ MinIdle

emit_file ==
    /\ "file" \notin emitted
    /\ file_out' = generate_file_permissions(access_type, allow_list, deny_list)
    /\ emitted' = emitted \cup {"file"}
    /\ UNCHANGED <<access_type, allow_list, deny_list, run_out>>
    /\ UNCHANGED permVars /\ UNCHANGED minVars

emit_run ==
    /\ "run" \notin emitted
    /\ run_out' = generate_run_permissions(allow_list, deny_list)
    /\ emitted' = emitted \cup {"run"}
    /\ UNCHANGED <<access_type, allow_list, deny_list, file_out>>
    /\ UNCHANGED permVars /\ UNCHANGED minVars

NextEmit == emit_file \/ emit_run

SpecEmit == InitEmit /\ [][NextEmit]_vars

----------------------------------------------------------------------------
(* minify_profile *)

\* char::is_whitespace, restricted to the characters of the model
Whitespace == {" ", "\t", "\n", "\r"}

\* str::strip_suffix('\r')
strip_cr(line) ==
    IF line # <<>> /\ line[Len(line)] = "\r" THEN SubSeq(line, 1, Len(line) - 1) ELSE line

\* position of the first "\n" of s at or after position i, 0 when there is none
next_newline(s, i) ==
    IF \E j \in i..Len(s) : s[j] = "\n"
    THEN CHOOSE j \in i..Len(s) : s[j] = "\n" /\ \A k \in i..(j - 1) : s[k] # "\n"
    ELSE 0

RECURSIVE lines_from(_, _, _)
\* str::lines(): split after each "\n"; a line that ended in "\n" loses it and
\* then one "\r" before it; a last line without "\n" is returned as it is; no
\* empty line follows a final "\n"
lines_from(s, i, acc) ==
    IF i > Len(s) THEN acc
    ELSE IF next_newline(s, i) = 0 THEN Append(acc, SubSeq(s, i, Len(s)))
    ELSE lines_from(s, next_newline(s, i) + 1,
                    Append(acc, strip_cr(SubSeq(s, i, next_newline(s, i) - 1))))

lines(s) == lines_from(s, 1, <<>>)

\* str::find(';'): index of the first semicolon, 0 when there is none
find_semicolon(line) ==
    IF \E i \in 1..Len(line) : line[i] = ";"
    THEN CHOOSE i \in 1..Len(line) : line[i] = ";" /\ \A j \in 1..(i - 1) : line[j] # ";"
    ELSE 0

\* if let Some(index) = line.find(';') { &line[..index] } else { line }
cut_comment(line) ==
    IF find_semicolon(line) # 0 THEN SubSeq(line, 1, find_semicolon(line) - 1) ELSE line

RECURSIVE trim_start(_)
trim_start(s) ==
    IF s # <<>> /\ Head(s) \in Whitespace THEN trim_start(Tail(s)) ELSE s

RECURSIVE trim_end(_)
trim_end(s) ==
    IF s # <<>> /\ s[Len(s)] \in Whitespace THEN trim_end(SubSeq(s, 1, Len(s) - 1)) ELSE s

\* str::trim()
trim(s) == trim_end(trim_start(s))

\* closure variant: trims before cutting the comment
strip_line_trim_first(line) == cut_comment(trim(line))

\* the closure's value before the emptiness test: cut the comment, then trim
strip_line(line) == trim(cut_comment(line))

RECURSIVE filter_map(_, _, _)
\* filter_map: keep the stripped lines that are not empty
filter_map(ls, i, acc) ==
    IF i > Len(ls) THEN acc
    ELSE filter_map(ls, i + 1,
                    IF strip_line(ls[i]) = <<>> THEN acc ELSE Append(acc, strip_line(ls[i])))

\* join variant: the separator is a line feed
join_newline(ls) ==
    IF ls = <<>> THEN <<>>
    ELSE Concat([i \in 1..Len(ls) |-> IF i = 1 THEN ls[i] ELSE <<"\n">> \o ls[i]])

\* .join(" ")
join(ls) ==
    IF ls = <<>> THEN <<>>
    ELSE Concat([i \in 1..Len(ls) |-> IF i = 1 THEN ls[i] ELSE <<" ">> \o ls[i]])

\* minify_profile
minify_profile(p) == join(filter_map(lines(p), 1, <<>>))

\* the characters a profile text is made of
MinChars == {"a", ";", " ", "\t", "\n", "\r"}

InitMin ==
    /\ text \in BSeq(MinChars, MaxText)
    /\ min1 = <<>> /\ min2 = <<>> /\ mstage = 0
    /\ PermIdle /\ EmitIdle

\* minify_profile(text)
minify_once ==
    /\ mstage = 0
    /\ min1' = minify_profile(text)
    /\ mstage' = 1
    /\ UNCHANGED <<text, min2>>
    /\ UNCHANGED permVars /\ UNCHANGED emitVars

\* minify_profile applied to the previous result
minify_again ==
    /\ mstage = 1
    /\ min2' = minify_profile(min1)
    /\ mstage' = 2
    /\ UNCHANGED <<text, min1>>
    /\ UNCHANGED permVars /\ UNCHANGED emitVars

NextMin == minify_once \/ minify_again

SpecMin == InitMin /\ [][NextMin]_vars

----------------------------------------------------------------------------
(* Properties of the setters and of validate_paths *)

\* the step is a call of one of the four path setters
PathSetterStep == calls' = calls + 1 /\ call'.op \in PathFields

\* positions of the argument's paths that do not exist when the call is made
MissingAt(paths, fsys) == {i \in 1..Len(paths) : paths[i] \notin fsys}

\* C1: a path setter that is handed at least one nonexistent path returns an
\* error and leaves the whole Permissions value as it was before the call.
C1_FailedSetterChangesNothing ==
    [][(PathSetterStep /\ MissingAt(call'.arg, fs) # {})
         => (~call'.ok /\ call'.err.kind = "NotFound" /\ permissions' = permissions)]_vars

\* a failed call whose first path existed, on a field that held a list before
C1_Witness ==
    /\ call.op \in PathFields /\ ~call.ok
    /\ Len(call.arg) = 2 /\ Len(call.statLog) = 2
    /\ permissions[call.op] # <<>>

\* C2: whenever a path list changes, every string it then holds is the string
\* form of an entry that exists at the moment of that setter call; starting
\* from empty lists, every held string was therefore backed by an existing
\* entry when it was stored.
C2_StoredStringsExistedWhenStored ==
    [][\A f \in PathFields :
          permissions'[f] # permissions[f]
            => \A i \in 1..Len(permissions'[f]) :
                  \E p \in fs : to_string_lossy(p) = permissions'[f][i]]_vars

\* generate_profile has just emitted a path whose entry is gone by now
C2_Witness ==
    /\ call.op = "generate_profile"
    /\ permissions.deny_read = <<to_string_lossy(PathRaw)>>
    /\ PathRaw \notin fs
    /\ Contains(profile, to_string_lossy(PathRaw))

\* C8: every list field equals the argument of the most recent successful
\* call of its setter (in string form for paths), in the caller's order, and
\* is empty if there was none.
C8_FieldIsLastSuccessfulArgument ==
    /\ \A f \in PathFields : permissions[f] = string_forms(lastOk[f])
    /\ \A f \in RunFields : permissions[f] = lastOk[f]

\* a second call has stored two different paths in the order given
C8_Witness ==
    /\ calls = 2 /\ call.op \in PathFields /\ call.ok
    /\ call.arg = <<PathRaw, PathA>>
    /\ permissions[call.op] = <<to_string_lossy(PathRaw), to_string_lossy(PathA)>>

\* smallest element of a non-empty set of numbers
Least(S) == CHOOSE k \in S : \A j \in S : k <= j

\* C9: validate_paths reports the first nonexistent path in a NotFound error
\* and asks the filesystem about no later path; when all paths exist the
\* result is their string forms in the same order.
C9_ValidateFailsFast ==
    [][PathSetterStep =>
          LET a == call'.arg
              miss == MissingAt(a, fs)
          IN  IF miss # {}
              THEN /\ ~call'.ok
                   /\ call'.err.kind = "NotFound"
                   /\ call'.err.msg =
                        <<"P","a","t","h"," ","d","o","e","s"," ","n","o","t"," ",
                          "e","x","i","s","t",":"," ">> \o display(a[Least(miss)])
                   /\ call'.statLog = SubSeq(a, 1, Least(miss))
              ELSE /\ call'.ok
                   /\ Len(permissions'[call'.op]) = Len(a)
                   /\ \A i \in 1..Len(a) :
                         permissions'[call'.op][i] = to_string_lossy(a[i])]_vars

\* the first path is missing and the second, which exists, was never looked at
C9_Witness ==
    /\ call.op \in PathFields /\ ~call.ok
    /\ Len(call.arg) = 2 /\ call.arg[2] \in fs
    /\ call.statLog = <<call.arg[1]>>

----------------------------------------------------------------------------
(* Properties of generate_profile and of the emitters *)

\* C3: the profile is the template followed directly by the file-read rules,
\* the file-write rules, the network rule and the process-exec rules, in that
\* order; for an empty Permissions value it is the template itself.
C3_ProfileIsTemplateThenFragments ==
    call.op = "generate_profile" =>
        /\ profile = Concat(<<call.arg[1],
                              generate_file_permissions(FileRead, permissions.allow_read,
                                                        permissions.deny_read),
                              generate_file_permissions(FileWrite, permissions.allow_write,
                                                        permissions.deny_write),
                              generate_network_permissions(permissions.allow_net),
                              generate_run_permissions(permissions.allow_run,
                                                       permissions.deny_run)>>)
        /\ (permissions = NewPermissions => profile = call.arg[1])

\* a profile in which the template and all four fragments are present
C3_Witness ==
    /\ call.op = "generate_profile" /\ call.arg[1] = TemplateBase
    /\ permissions.allow_read # <<>> /\ permissions.deny_write # <<>>
    /\ permissions.allow_net /\ permissions.allow_run # <<>>
    /\ permissions.allow_write = <<>>

\* the first n characters of s are t
StartsWith(s, t) == MatchAt(s, t, 1)

\* C4: read line by line, the output of generate_file_permissions is one deny
\* statement per deny path in list order, followed, only when the allow list
\* is not empty, by the allow line, one subpath clause per allow path in list
\* order and the closing line; with an empty allow list no line opens an
\* allow block.
C4_DenyStatementsThenAllowBlock ==
    "file" \in emitted =>
        LET L == lines(file_out)
            n == Len(deny_list)
            m == Len(allow_list)
        IN  /\ file_out # <<>> => file_out[Len(file_out)] = "\n"
            /\ Len(L) = n + (IF m = 0 THEN 0 ELSE m + 2)
            /\ \A i \in 1..n :
                  L[i] = Concat(<< <<"(","d","e","n","y"," ">>, access_type,
                                   <<" ","(","s","u","b","p","a","t","h"," ","\"">>,
                                   deny_list[i], <<"\"",")",")">> >>)
            /\ m > 0 =>
                  /\ L[n + 1] = Concat(<< <<"(","a","l","l","o","w"," ">>, access_type,
                                          <<")">> >>)
                  /\ \A j \in 1..m :
                        L[n + 1 + j] =
                            Concat(<< <<" "," "," "," ","(","s","u","b","p","a","t","h",
                                        " ","\"">>, allow_list[j], <<"\"",")">> >>)
                  /\ L[n + m + 2] = <<")">>
            /\ m = 0 =>
                  \A i \in 1..Len(L) : ~StartsWith(L[i], <<"(","a","l","l","o","w">>)

\* two deny statements and a two-clause allow block have been emitted
C4_Witness ==
    /\ "file" \in emitted
    /\ Len(deny_list) = 2 /\ deny_list[1] # deny_list[2]
    /\ Len(allow_list) = 2 /\ allow_list[1] # allow_list[2]

\* number of occurrences of character c among the first i characters of s
CountUpTo(s, c, i) == Cardinality({j \in 1..i : s[j] = c})

\* every closing parenthesis has an opener before it and every opener is closed
Balanced(s) ==
    /\ \A i \in 1..Len(s) : CountUpTo(s, ")", i) <= CountUpTo(s, "(", i)
    /\ CountUpTo(s, ")", Len(s)) = CountUpTo(s, "(", Len(s))

\* C5: the output of generate_file_permissions and of generate_run_permissions
\* has balanced parentheses.
C5_FragmentsBalanced ==
    /\ "file" \in emitted => Balanced(file_out)
    /\ "run" \in emitted => Balanced(run_out)

\* position of the first occurrence of t in s at or after position i, 0 when there is none
next_match(s, t, i) ==
    IF \E j \in i..Len(s) : MatchAt(s, t, j)
    THEN CHOOSE j \in i..Len(s) : MatchAt(s, t, j) /\ \A k \in i..(j - 1) : ~MatchAt(s, t, k)
    ELSE 0

RECURSIVE replace(_, _, _, _)
\* s from position i on, with every occurrence of from turned into to
replace(s, i, from, to) ==
    IF next_match(s, from, i) = 0 THEN SubSeq(s, i, Len(s))
    ELSE SubSeq(s, i, next_match(s, from, i) - 1) \o to
           \o replace(s, next_match(s, from, i) + Len(from), from, to)

\* C10: generate_run_permissions(allow, deny) is
\* generate_file_permissions("process-exec", allow, deny) with every subpath
\* clause turned into a literal clause, and differs in nothing else.
C10_RunIsFileWithLiteral ==
    (emitted = {"file", "run"} /\ access_type = ProcessExec) =>
        run_out = replace(file_out, 1, <<"(","s","u","b","p","a","t","h"," ">>,
                          <<"(","l","i","t","e","r","a","l"," ">>)

----------------------------------------------------------------------------
(* Properties of minify_profile *)

\* C6: minify_profile applied to its own result returns that result.
C6_MinifyIdempotent == mstage = 2 => min2 = min1

\* a text with a comment and a blank line whose minified form is not empty
C6_Witness ==
    /\ mstage = 2
    /\ Contains(text, <<";">>) /\ Contains(text, <<"\n", "\n">>)
    /\ min1 # <<>> /\ min1 # text

RECURSIVE JoinWithSpace(_)
\* the strings of ss with exactly one space between neighbours
JoinWithSpace(ss) ==
    IF ss = <<>> THEN <<>>
    ELSE IF Len(ss) = 1 THEN ss[1]
    ELSE ss[1] \o <<" ">> \o JoinWithSpace(Tail(ss))

NonEmpty(s) == s # <<>>

\* C7: the result of minify_profile holds no newline character; it is the
\* lines of the input, each cut at its first semicolon and trimmed, without
\* those that became empty, joined by exactly one space.
C7_MinifiedIsOneLine ==
    mstage >= 1 =>
        /\ \A i \in 1..Len(min1) : min1[i] # "\n"
        /\ LET ls == lines(text)
               stripped == [i \in 1..Len(ls) |-> trim(cut_comment(ls[i]))]
           IN  min1 = JoinWithSpace(SelectSeq(stripped, NonEmpty))

\* two surviving lines: the only space of the result stands where a newline was
C7_Witness ==
    /\ mstage >= 1
    /\ Contains(text, <<"\n">>) /\ ~Contains(text, <<" ">>)
    /\ Contains(min1, <<" ">>)

====
